---- MODULE Spec2Model ----
(***************************************************************************)
(* Model of the markdown chunk splitter of the knowledge-base document     *)
(* preprocessor: DataPathTracker and the generator _split_and_prefix       *)
(* (tools/knowledge-base-document-preprocessor.py).                        *)
(*                                                                         *)
(* A text line is a sequence of one-character strings, so that the heading *)
(* pattern, str.strip, the escaping of marker segments and len() are       *)
(* computed on characters as the code computes them.  Indices into         *)
(* chunk_lines are 0-based as in the code (-1 means "none"); the TLA+      *)
(* sequence element for Python index i is chunk_lines[i + 1].              *)
(*                                                                         *)
(* Spec is one invocation of the generator, LiveSpec the same invocation   *)
(* drained by its caller, TrackerSpec a DataPathTracker driven on its own, *)
(* PairSpec two invocations whose consumers take turns and MalformedSpec   *)
(* one invocation over malformed headings.  TableSpec is one call of       *)
(* _normalize_markdown_tables and PageSpec one run of                      *)
(* DatasetMetaClient.iter_documents (kb-dataset-meta-tools) against a      *)
(* server that answers as it likes.                                        *)
(***************************************************************************)
EXTENDS Integers, Sequences, FiniteSets, TLC

VARIABLES
    lines_list,           \* list(lines): the materialised input
    max_chunk_length,     \* parameter
    split_max_level,      \* parameter
    pc,                   \* position of the generator: "call", "for", "while", "done"
    idx,                  \* index (0-based) of the for loop over lines_list
    segments,             \* tracker._segments
    chunk_lines,
    chunk_marker,
    chunk_content_chars,
    last_blank_idx,
    last_heading_idx,
    last_nonindent_idx,
    out,                  \* the lines yielded so far, each with its role
    closed_by,            \* history: what closed each emitted chunk
    while_cuts,           \* history: cuts made by the while loop for the current line
    other,                \* the frame of a second, suspended invocation (if any)
    md_text,              \* _normalize_markdown_tables: the argument
    result,               \* its list of output lines, each with its role
    normalized,           \* its return value
    page_size,            \* iter_documents: the parameter
    page,                 \* the page to request next
    requests,             \* history: the page numbers requested
    fetched,              \* history: the items of each response
    yielded               \* history: the items yielded

vars == <<lines_list, max_chunk_length, split_max_level, pc, idx, segments,
          chunk_lines, chunk_marker, chunk_content_chars, last_blank_idx,
          last_heading_idx, last_nonindent_idx, out, closed_by, while_cuts,
          other, md_text, result, normalized, page_size, page, requests,
          fetched, yielded>>

table_vars == <<md_text, result, normalized>>

page_vars == <<page_size, page, requests, fetched, yielded>>

-----------------------------------------------------------------------------
(* Bounds and input alphabet *)

MaxLines == 3

\* "# A\n", "## B\n", "### C\n", "x\n", " y\n", "\n"
LineH1 == <<"#", " ", "A", "\n">>
LineH2 == <<"#", "#", " ", "B", "\n">>
LineH3 == <<"#", "#", "#", " ", "C", "\n">>
LinePlain == <<"x", "\n">>
LineIndented == <<" ", "y", "\n">>
LineBlank == <<"\n">>

LineAlphabet == {LineH1, LineH2, LineH3, LinePlain, LineIndented, LineBlank}

BudgetChoices == {1, 15, 23, 27, 31, 64}

SplitLevelChoices == {1, 2, 3}

InputLines == UNION {[1..n -> LineAlphabet] : n \in 0..MaxLines}

\* lines for the tracker driven on its own: "# \\\"\n" (a title of a backslash
\* and a double quote), "##\t D \n" (a padded title), "#A\n" (no heading: no
\* whitespace after the hashes)
LineEscaped == <<"#", " ", "\\", "\"", "\n">>
LinePadded == <<"#", "#", "\t", " ", "D", " ", "\n">>
LineNoSpace == <<"#", "A", "\n">>

TrackerAlphabet ==
    {LineH1, LineH2, LineH3, LinePlain, LineEscaped, LinePadded, LineNoSpace}

TrackerInputs == UNION {[1..n -> TrackerAlphabet] : n \in 0..MaxLines}

-----------------------------------------------------------------------------
(* Strings *)

\* F applied to the value of x: x is bound through a singleton set, so it is
\* evaluated once however often F uses its argument
Once(F(_), x) == CHOOSE r \in {F(v) : v \in {x}} : TRUE

Whitespace == {" ", "\t", "\n", "\r"}

isspace(c) == c \in Whitespace

RECURSIVE lstrip(_)
lstrip(s) ==
    IF s = <<>> THEN <<>>
    ELSE IF isspace(Head(s)) THEN lstrip(Tail(s)) ELSE s

RECURSIVE rstrip(_)
rstrip(s) ==
    IF s = <<>> THEN <<>>
    ELSE IF isspace(s[Len(s)]) THEN rstrip(SubSeq(s, 1, Len(s) - 1)) ELSE s

strip(s) == Once(rstrip, Once(lstrip, s))

RECURSIVE replace(_, _, _)
\* str.replace(old, new) for a one-character old
replace(s, old, new) ==
    IF s = <<>> THEN <<>>
    ELSE (IF Head(s) = old THEN new ELSE <<Head(s)>>) \o replace(Tail(s), old, new)

RECURSIVE SumLen(_)
SumLen(ls) == IF ls = <<>> THEN 0 ELSE Len(Head(ls)) + SumLen(Tail(ls))

-----------------------------------------------------------------------------
\* HEADING_PATTERN: one to six hashes, whitespace, then the title

DELIM == <<"-", "-", "-", "D", "I", "F", "Y", "-", "C", "H", "U", "N", "K", "-", "-", "-">>

MaxHashes == 6

RECURSIVE HashRun(_)
\* the number of leading '#' characters
HashRun(s) ==
    IF s # <<>> /\ Head(s) = "#" THEN 1 + HashRun(Tail(s)) ELSE 0

\* a mutant of HEADING_PATTERN_match: any number of hashes makes a heading
HEADING_PATTERN_match_any_depth(line) ==
    LET h == HashRun(line)
    IN  /\ h >= 1
        /\ Len(line) > h
        /\ isspace(line[h + 1])

\* HEADING_PATTERN.match(line) is not None: group 1 must be the whole run of
\* hashes, since \s+ has to start on the character right after it
HEADING_PATTERN_match(line) ==
    LET h == HashRun(line)
    IN  /\ h >= 1
        /\ h <= MaxHashes
        /\ Len(line) > h
        /\ isspace(line[h + 1])

\* len(match.group(1))
heading_level(line) == HashRun(line)

RECURSIVE UntilNewline(_)
\* group 2: '.' matches anything but a newline
UntilNewline(s) ==
    IF s = <<>> \/ Head(s) = "\n" THEN <<>>
    ELSE <<Head(s)>> \o UntilNewline(Tail(s))

\* match.group(2).strip(): \s+ is greedy and takes every whitespace character
\* after the hashes
heading_title(line) ==
    Once(strip, Once(UntilNewline,
        Once(lstrip, SubSeq(line, HashRun(line) + 1, Len(line)))))

-----------------------------------------------------------------------------
(* DataPathTracker *)

\* a mutant of Truncated: nothing is cut off the stack
Truncated_uncut(segs, level, title) == Append(segs, title)

\* segments[: level - 1] + [title]
Truncated(segs, level, title) ==
    Append(SubSeq(segs, 1, IF level - 1 < Len(segs) THEN level - 1 ELSE Len(segs)),
           title)

\* a mutant of sanitize: the double quotes are escaped before the backslashes
sanitize_quotes_first(text) ==
    Once(strip,
         Once(LAMBDA t : replace(t, "\\", <<"\\", "\\">>),
              Once(LAMBDA t : replace(t, "\"", <<"\\", "\"">>), text)))

sanitize(text) ==
    Once(strip,
         Once(LAMBDA t : replace(t, "\"", <<"\\", "\"">>),
              Once(LAMBDA t : replace(t, "\\", <<"\\", "\\">>), text)))

RECURSIVE JoinQuoted(_)
\* " > ".join(f'"{sanitize(segment)}"' for segment in segments)
JoinQuoted(segs) ==
    IF segs = <<>> THEN <<>>
    ELSE <<"\"">> \o Once(sanitize, Head(segs)) \o <<"\"">>
         \o (IF Len(segs) = 1 THEN <<>>
             ELSE <<" ", ">", " ">> \o Once(JoinQuoted, Tail(segs)))

\* f"{{ data-path = {joined} }}"
render(segs) ==
    <<"{", " ", "d", "a", "t", "a", "-", "p", "a", "t", "h", " ", "=", " ">>
        \o Once(JoinQuoted, segs) \o <<" ", "}">>

\* the segment list current_marker renders (first_line falsy: None or "")
marker_segments(segs, first_line) ==
    IF first_line # <<>> /\ HEADING_PATTERN_match(first_line)
    THEN Truncated(segs, heading_level(first_line), heading_title(first_line))
    ELSE segs

\* a mutant of current_marker: the first line is not looked at
current_marker_no_lookahead(segs, first_line) == Once(render, segs)

current_marker(segs, first_line) ==
    Once(render, marker_segments(segs, first_line))

\* a mutant of segments_after_current_marker: the lookahead is stored
segments_after_lookahead(segs, first_line) == marker_segments(segs, first_line)

\* tracker._segments after current_marker(first_line) has returned: the
\* method works on a copy, self._segments[:], and never assigns the attribute
segments_after_current_marker(segs, first_line) == segs

\* a mutant of ingest_line: headings deeper than split_max_level are skipped
ingest_line_split_only(segs, line) ==
    IF HEADING_PATTERN_match(line) /\ heading_level(line) <= split_max_level
    THEN Truncated(segs, heading_level(line), heading_title(line))
    ELSE segs

\* a mutant of ingest_line: a skipped level is filled with empty titles
ingest_line_placeholder(segs, line) ==
    IF HEADING_PATTERN_match(line)
    THEN [i \in 1..heading_level(line) |->
            IF i = heading_level(line) THEN heading_title(line)
            ELSE IF i <= Len(segs) THEN segs[i] ELSE <<>>]
    ELSE segs

\* the value of tracker._segments after tracker.ingest_line(line)
ingest_line(segs, line) ==
    IF HEADING_PATTERN_match(line)
    THEN Truncated(segs, heading_level(line), heading_title(line))
    ELSE segs

\* a mutant of ingest_all: emit_chunk does not call the tracker
ingest_nothing(segs, ls) == segs

RECURSIVE ingest_all(_, _)
\* the tracker after emit_chunk has yielded, and ingested, every chunk line
ingest_all(segs, ls) ==
    IF ls = <<>> THEN segs
    ELSE Once(LAMBDA next : ingest_all(next, Tail(ls)), ingest_line(segs, Head(ls)))

-----------------------------------------------------------------------------
(* _split_and_prefix *)

OutMarker(marker) == [kind |-> "marker", text |-> marker \o <<"\n">>]
OutContent(line) == [kind |-> "content", text |-> line]
OutDelim == [kind |-> "delim", text |-> DELIM \o <<"\n">>]

\* the parameters _split_and_prefix declares
split_and_prefix_params == {"lines", "max_chunk_length", "split_max_level"}

\* the source_name the test suite passes: SOURCE_PATH.stem of test.md
source_name == <<"t", "e", "s", "t">>

\* the lines emit_chunk(marker, lines_chunk, add_delimiter) yields
\* a mutant of emit_chunk: an empty chunk is written out too
emit_chunk_unguarded(marker, lines_chunk, add_delimiter) ==
    <<OutMarker(marker)>>
    \o [i \in 1..Len(lines_chunk) |-> OutContent(lines_chunk[i])]
    \o (IF add_delimiter THEN <<OutDelim>> ELSE <<>>)

emit_chunk(marker, lines_chunk, add_delimiter) ==
    IF lines_chunk = <<>> THEN <<>>
    ELSE <<OutMarker(marker)>>
         \o [i \in 1..Len(lines_chunk) |-> OutContent(lines_chunk[i])]
         \o (IF add_delimiter THEN <<OutDelim>> ELSE <<>>)

\* the history entry of one emit_chunk call
Closed(lines_chunk, why) == IF lines_chunk = <<>> THEN <<>> ELSE <<why>>

is_blank(line) == strip(line) = <<>>

\* a mutant of is_split_heading: the level compared with <
is_split_heading_strict(line, level) ==
    HEADING_PATTERN_match(line) /\ heading_level(line) < level

\* a mutant of is_split_heading: the level is not compared
is_split_heading_any(line, level) == HEADING_PATTERN_match(line)

\* a mutant of is_split_heading: only headings of level 1 count
is_split_heading_top(line, level) ==
    HEADING_PATTERN_match(line) /\ heading_level(line) <= 1

\* heading_match and len(heading_match.group(1)) <= split_max_level
is_split_heading(line, level) ==
    HEADING_PATTERN_match(line) /\ heading_level(line) <= level

\* line and not line[0].isspace()
is_nonindent(line) == line # <<>> /\ ~isspace(line[1])

\* the number of lines taken from the input sequence so far: list(lines)
\* takes them all before the for loop starts
lines_read == IF pc = "call" THEN 0 ELSE Len(lines_list)

total_lines == Len(lines_list)

is_last_line == idx = total_lines - 1

\* a mutant of chunk_length: the marker is not counted
chunk_length_content_only == chunk_content_chars

\* len(chunk_marker) + 1 + chunk_content_chars
chunk_length == Len(chunk_marker) + 1 + chunk_content_chars

\* a mutant of chunk_fits: the comparison taken as <=
chunk_fits_inclusive(length, limit) == length <= limit

\* a mutant of chunk_fits: a chunk one under the budget is cut already
chunk_fits_early(length, limit) == length + 1 < limit

\* chunk_length < max_chunk_length: the while loop breaks
chunk_fits(length, limit) == length < limit

\* a mutant of cut_idx_of: the fallback cuts before the first line
cut_idx_of_stuck(heading_idx, blank_idx, nonindent_idx, n) ==
    IF heading_idx > 0 THEN heading_idx - 1
    ELSE IF blank_idx # -1 THEN blank_idx
    ELSE IF nonindent_idx > 0 THEN nonindent_idx - 1
    ELSE -1

\* a mutant of cut_idx_of: the fallback cuts after the first line
cut_idx_of_first(heading_idx, blank_idx, nonindent_idx, n) ==
    IF heading_idx > 0 THEN heading_idx - 1
    ELSE IF blank_idx # -1 THEN blank_idx
    ELSE IF nonindent_idx > 0 THEN nonindent_idx - 1
    ELSE 0

\* a mutant of cut_idx_of: a non-indented line is preferred to a blank line
cut_idx_of_nonindent_first(heading_idx, blank_idx, nonindent_idx, n) ==
    IF heading_idx > 0 THEN heading_idx - 1
    ELSE IF nonindent_idx > 0 THEN nonindent_idx - 1
    ELSE IF blank_idx # -1 THEN blank_idx
    ELSE n - 1

\* a mutant of cut_idx_of: the non-indented line stays in the left part
cut_idx_of_after_nonindent(heading_idx, blank_idx, nonindent_idx, n) ==
    IF heading_idx > 0 THEN heading_idx - 1
    ELSE IF blank_idx # -1 THEN blank_idx
    ELSE IF nonindent_idx > 0 THEN nonindent_idx
    ELSE n - 1

\* the priority of cut points of the while loop
cut_idx_of(heading_idx, blank_idx, nonindent_idx, n) ==
    IF heading_idx > 0 THEN heading_idx - 1
    ELSE IF blank_idx # -1 THEN blank_idx
    ELSE IF nonindent_idx > 0 THEN nonindent_idx - 1
    ELSE n - 1

\* chunk_lines[: cut_idx + 1]
left_of(ls, cut_idx) == SubSeq(ls, 1, cut_idx + 1)

\* a mutant of right_of: the slice starts one line late
right_of_late(ls, cut_idx) == SubSeq(ls, cut_idx + 3, Len(ls))

\* chunk_lines[cut_idx + 1 :]
right_of(ls, cut_idx) == SubSeq(ls, cut_idx + 2, Len(ls))

\* a mutant of add_delimiter_of: the remainder is not looked at
add_delimiter_unless_last(right_lines, last) == ~last

\* a mutant of add_delimiter_of: a delimiter after every cut
add_delimiter_always(right_lines, last) == TRUE

\* bool(right_lines) or not is_last_line
add_delimiter_of(right_lines, last) == right_lines # <<>> \/ ~last

\* recompute_chunk_metadata: the scan of the retained lines
RescanBlank(ls) ==
    LET S == {i \in 0..Len(ls) - 1 : is_blank(ls[i + 1])}
    IN  IF S = {} THEN -1 ELSE CHOOSE i \in S : \A j \in S : j <= i

RescanHeading(ls, level) ==
    LET S == {i \in 1..Len(ls) - 1 :
                ~is_blank(ls[i + 1]) /\ is_split_heading(ls[i + 1], level)}
    IN  IF S = {} THEN -1 ELSE CHOOSE i \in S : \A j \in S : j <= i

\* a mutant of RescanNonindent: the first retained line counts too
RescanNonindent_from_first(ls) ==
    LET S == {i \in 0..Len(ls) - 1 :
                ~is_blank(ls[i + 1]) /\ is_nonindent(ls[i + 1])}
    IN  IF S = {} THEN -1 ELSE CHOOSE i \in S : \A j \in S : j <= i

RescanNonindent(ls) ==
    LET S == {i \in 1..Len(ls) - 1 :
                ~is_blank(ls[i + 1]) /\ is_nonindent(ls[i + 1])}
    IN  IF S = {} THEN -1 ELSE CHOOSE i \in S : \A j \in S : j <= i

\* no second invocation
NoInvocation == [pc |-> "none"]

\* _normalize_markdown_tables is not running
TableIdle == md_text = <<>> /\ result = <<>> /\ normalized = <<>>

\* iter_documents is not running
PageIdle ==
    /\ page_size = 1
    /\ page = 1
    /\ requests = <<>>
    /\ fetched = <<>>
    /\ yielded = <<>>

Init ==
    /\ lines_list \in InputLines
    /\ max_chunk_length \in BudgetChoices
    /\ split_max_level \in SplitLevelChoices
    /\ pc = "for"
    /\ idx = 0
    /\ segments = <<>>
    /\ chunk_lines = <<>>
    /\ chunk_marker = <<>>
    /\ chunk_content_chars = 0
    /\ last_blank_idx = -1
    /\ last_heading_idx = -1
    /\ last_nonindent_idx = -1
    /\ out = <<>>
    /\ closed_by = <<>>
    /\ while_cuts = 0
    /\ other = NoInvocation
    /\ TableIdle
    /\ PageIdle

\* one iteration of the for loop, up to the while loop (lines 232-259)
ForBody ==
    /\ pc = "for"
    /\ idx < total_lines
    /\ \E line \in {lines_list[idx + 1]} :
       \E boundary \in {chunk_lines # <<>> /\ is_split_heading(line, split_max_level)} :
       \E segs1 \in {IF boundary THEN ingest_all(segments, chunk_lines) ELSE segments} :
       \E lines1 \in {IF boundary THEN <<>> ELSE chunk_lines} :
       \E fresh \in {lines1 = <<>>} :
       \E idx_in_chunk \in {Len(lines1)} :
           /\ out' = IF boundary
                     THEN out \o emit_chunk(chunk_marker, chunk_lines, TRUE)
                     ELSE out
           /\ closed_by' = IF boundary
                           THEN closed_by \o Closed(chunk_lines, "heading")
                           ELSE closed_by
           /\ segments' = IF fresh THEN segments_after_current_marker(segs1, line)
                          ELSE segs1
           /\ chunk_marker' = IF fresh THEN current_marker(segs1, line) ELSE chunk_marker
           /\ chunk_lines' = Append(lines1, line)
           /\ chunk_content_chars' = (IF fresh THEN 0 ELSE chunk_content_chars) + Len(line)
           /\ last_blank_idx' =
                IF is_blank(line) THEN idx_in_chunk
                ELSE IF fresh THEN -1 ELSE last_blank_idx
           /\ last_heading_idx' =
                IF ~is_blank(line) /\ idx_in_chunk > 0
                   /\ is_split_heading(line, split_max_level)
                THEN idx_in_chunk
                ELSE IF fresh THEN -1 ELSE last_heading_idx
           /\ last_nonindent_idx' =
                IF ~is_blank(line) /\ idx_in_chunk > 0 /\ is_nonindent(line)
                THEN idx_in_chunk
                ELSE IF fresh THEN -1 ELSE last_nonindent_idx
    /\ pc' = "while"
    /\ while_cuts' = 0
    /\ UNCHANGED <<table_vars, page_vars, other, lines_list, max_chunk_length, split_max_level, idx>>

\* the while loop ends: its condition is false or the break is taken
WhileBreak ==
    /\ pc = "while"
    /\ chunk_lines = <<>> \/ chunk_fits(chunk_length, max_chunk_length)
    /\ pc' = "for"
    /\ idx' = idx + 1
    /\ UNCHANGED <<table_vars, page_vars, other, lines_list, max_chunk_length, split_max_level, segments,
                   chunk_lines, chunk_marker, chunk_content_chars, last_blank_idx,
                   last_heading_idx, last_nonindent_idx, out, closed_by,
                   while_cuts>>

\* one iteration of the while loop that cuts the chunk (lines 265-280)
WhileCut ==
    /\ pc = "while"
    /\ chunk_lines # <<>>
    /\ ~chunk_fits(chunk_length, max_chunk_length)
    /\ \E cut_idx \in {cut_idx_of(last_heading_idx, last_blank_idx,
                                   last_nonindent_idx, Len(chunk_lines))} :
       \E left_lines \in {left_of(chunk_lines, cut_idx)} :
       \E right_lines \in {right_of(chunk_lines, cut_idx)} :
       \E add_delimiter \in {add_delimiter_of(right_lines, is_last_line)} :
       \E segs1 \in {ingest_all(segments, left_lines)} :
           /\ out' = out \o emit_chunk(chunk_marker, left_lines, add_delimiter)
           /\ closed_by' = closed_by \o Closed(left_lines, "length")
           /\ segments' = IF right_lines = <<>> THEN segs1
                          ELSE segments_after_current_marker(segs1, right_lines[1])
           /\ chunk_lines' = right_lines
           /\ chunk_content_chars' = SumLen(right_lines)
           /\ chunk_marker' = IF right_lines = <<>> THEN <<>>
                              ELSE current_marker(segs1, right_lines[1])
           /\ last_blank_idx' = RescanBlank(right_lines)
           /\ last_heading_idx' = RescanHeading(right_lines, split_max_level)
           /\ last_nonindent_idx' = RescanNonindent(right_lines)
    /\ while_cuts' = while_cuts + 1
    /\ UNCHANGED <<table_vars, page_vars, other, lines_list, max_chunk_length, split_max_level, pc, idx>>

\* after the for loop: the last chunk (lines 282-285)
Flush ==
    /\ pc = "for"
    /\ idx = total_lines
    /\ out' = out \o emit_chunk(chunk_marker, chunk_lines, FALSE)
    /\ closed_by' = closed_by \o Closed(chunk_lines, "eof")
    /\ segments' = ingest_all(segments, chunk_lines)
    /\ pc' = "done"
    /\ UNCHANGED <<table_vars, page_vars, other, lines_list, max_chunk_length, split_max_level, idx, chunk_lines,
                   chunk_marker, chunk_content_chars, last_blank_idx,
                   last_heading_idx, last_nonindent_idx, while_cuts>>

Next == ForBody \/ WhileBreak \/ WhileCut \/ Flush

Spec == Init /\ [][Next]_vars

\* before the call: no arguments bound yet, nothing yielded
NotCalled ==
    /\ pc = "call"
    /\ lines_list = <<>>
    /\ max_chunk_length = 1
    /\ split_max_level = 1
    /\ idx = 0
    /\ segments = <<>>
    /\ chunk_lines = <<>>
    /\ chunk_marker = <<>>
    /\ chunk_content_chars = 0
    /\ last_blank_idx = -1
    /\ last_heading_idx = -1
    /\ last_nonindent_idx = -1
    /\ out = <<>>
    /\ closed_by = <<>>
    /\ while_cuts = 0
    /\ other = NoInvocation
    /\ TableIdle
    /\ PageIdle

\* the caller binds the arguments and starts the generator (lines 176-186)
Call ==
    /\ pc = "call"
    /\ lines_list' \in InputLines
    /\ max_chunk_length' \in BudgetChoices
    /\ split_max_level' \in SplitLevelChoices
    /\ pc' = "for"
    /\ UNCHANGED <<table_vars, page_vars, other, idx, segments, chunk_lines, chunk_marker, chunk_content_chars,
                   last_blank_idx, last_heading_idx, last_nonindent_idx, out,
                   closed_by, while_cuts>>

DrainNext == Call \/ ForBody \/ WhileBreak \/ WhileCut \/ Flush

\* the caller drains the generator: it is resumed until it is exhausted
LiveSpec == NotCalled /\ [][DrainNext]_vars /\ WF_vars(DrainNext)

-----------------------------------------------------------------------------
(* Two invocations of _split_and_prefix whose consumers take turns.  The     *)
(* variables hold the locals of the invocation that is resumed; other is the *)
(* frame of the suspended one.  A generator runs only while it is resumed,   *)
(* so a step of one invocation is one of the steps above, and Switch hands   *)
(* control to the other generator.                                           *)

PairMaxLines == 2

PairAlphabet == {LineH1, LineH2, LinePlain}

PairBudgetChoices == {23, 64}

PairInputLines == UNION {[1..n -> PairAlphabet] : n \in 0..PairMaxLines}

\* the frame of an invocation that has been called and not resumed yet
NewFrame(lines, limit, level) ==
    [lines_list |-> lines, max_chunk_length |-> limit, split_max_level |-> level,
     pc |-> "for", idx |-> 0, segments |-> <<>>, chunk_lines |-> <<>>,
     chunk_marker |-> <<>>, chunk_content_chars |-> 0, last_blank_idx |-> -1,
     last_heading_idx |-> -1, last_nonindent_idx |-> -1, out |-> <<>>,
     closed_by |-> <<>>, while_cuts |-> 0]

\* the locals of the invocation that is resumed, as a frame
CurrentFrame ==
    [lines_list |-> lines_list, max_chunk_length |-> max_chunk_length,
     split_max_level |-> split_max_level, pc |-> pc, idx |-> idx,
     segments |-> segments, chunk_lines |-> chunk_lines,
     chunk_marker |-> chunk_marker, chunk_content_chars |-> chunk_content_chars,
     last_blank_idx |-> last_blank_idx, last_heading_idx |-> last_heading_idx,
     last_nonindent_idx |-> last_nonindent_idx, out |-> out,
     closed_by |-> closed_by, while_cuts |-> while_cuts]

\* a mutant of tracker_of_resumed: one tracker for every invocation
tracker_shared(own, live) == live

\* the stack the resumed invocation finds in its tracker: each call builds
\* its own DataPathTracker, whose list __init__ creates, so it is the stack
\* the invocation left (own), not the one the other invocation has (live)
tracker_of_resumed(own, live) == own

PairInit ==
    /\ lines_list \in PairInputLines
    /\ max_chunk_length \in PairBudgetChoices
    /\ split_max_level = 1
    /\ pc = "for"
    /\ idx = 0
    /\ segments = <<>>
    /\ chunk_lines = <<>>
    /\ chunk_marker = <<>>
    /\ chunk_content_chars = 0
    /\ last_blank_idx = -1
    /\ last_heading_idx = -1
    /\ last_nonindent_idx = -1
    /\ out = <<>>
    /\ closed_by = <<>>
    /\ while_cuts = 0
    /\ \E lines \in PairInputLines : \E limit \in PairBudgetChoices :
         other = NewFrame(lines, limit, 1)
    /\ TableIdle
    /\ PageIdle

\* the consumer of the other generator takes its turn
Switch ==
    /\ other.pc # "none"
    /\ other' = CurrentFrame
    /\ lines_list' = other.lines_list
    /\ max_chunk_length' = other.max_chunk_length
    /\ split_max_level' = other.split_max_level
    /\ pc' = other.pc
    /\ idx' = other.idx
    /\ segments' = tracker_of_resumed(other.segments, segments)
    /\ chunk_lines' = other.chunk_lines
    /\ chunk_marker' = other.chunk_marker
    /\ chunk_content_chars' = other.chunk_content_chars
    /\ last_blank_idx' = other.last_blank_idx
    /\ last_heading_idx' = other.last_heading_idx
    /\ last_nonindent_idx' = other.last_nonindent_idx
    /\ out' = other.out
    /\ closed_by' = other.closed_by
    /\ while_cuts' = other.while_cuts
    /\ UNCHANGED <<table_vars, page_vars>>

PairNext == ForBody \/ WhileBreak \/ WhileCut \/ Flush \/ Switch

PairSpec == PairInit /\ [][PairNext]_vars

-----------------------------------------------------------------------------
(* DataPathTracker driven on its own: a caller that constructs a tracker,    *)
(* ingests the lines of lines_list one by one and, at any time, asks for the *)
(* marker of a chunk.  pc is the method that returned last, idx the number   *)
(* of lines ingested, chunk_lines holds the first_line argument of the last  *)
(* current_marker call (empty for None) and chunk_marker its result.         *)

\* DataPathTracker(): an empty stack
TrackerInit ==
    /\ pc = "__init__"
    /\ lines_list \in TrackerInputs
    /\ max_chunk_length = 1
    /\ split_max_level = 1
    /\ idx = 0
    /\ segments = <<>>
    /\ chunk_lines = <<>>
    /\ chunk_marker = <<>>
    /\ chunk_content_chars = 0
    /\ last_blank_idx = -1
    /\ last_heading_idx = -1
    /\ last_nonindent_idx = -1
    /\ out = <<>>
    /\ closed_by = <<>>
    /\ while_cuts = 0
    /\ other = NoInvocation
    /\ TableIdle
    /\ PageIdle

\* tracker.ingest_line(lines_list[idx])
TrackerIngest ==
    /\ pc \in {"__init__", "ingest_line", "current_marker"}
    /\ idx < Len(lines_list)
    /\ segments' = ingest_line(segments, lines_list[idx + 1])
    /\ idx' = idx + 1
    /\ pc' = "ingest_line"
    /\ UNCHANGED <<table_vars, page_vars, other, lines_list, max_chunk_length, split_max_level, chunk_lines,
                   chunk_marker, chunk_content_chars, last_blank_idx,
                   last_heading_idx, last_nonindent_idx, out, closed_by,
                   while_cuts>>

\* chunk_marker = tracker.current_marker(first_line), first_line any line or None
TrackerMarker ==
    /\ pc \in {"__init__", "ingest_line", "current_marker"}
    /\ \E first_line \in TrackerAlphabet \cup {<<>>} :
         /\ chunk_marker' = current_marker(segments, first_line)
         /\ segments' = segments_after_current_marker(segments, first_line)
         /\ chunk_lines' = IF first_line = <<>> THEN <<>> ELSE <<first_line>>
    /\ pc' = "current_marker"
    /\ UNCHANGED <<table_vars, page_vars, other, lines_list, max_chunk_length, split_max_level, idx,
                   chunk_content_chars, last_blank_idx, last_heading_idx,
                   last_nonindent_idx, out, closed_by, while_cuts>>

TrackerNext == TrackerIngest \/ TrackerMarker

TrackerSpec == TrackerInit /\ [][TrackerNext]_vars

-----------------------------------------------------------------------------
(* Reading the output stream *)

RECURSIVE ContentTexts(_)
\* the content lines of an output stream, in order
ContentTexts(o) ==
    IF o = <<>> THEN <<>>
    ELSE (IF Head(o).kind = "content" THEN <<Head(o).text>> ELSE <<>>)
         \o ContentTexts(Tail(o))

MarkerIdxs(o) == {i \in 1..Len(o) : o[i].kind = "marker"}

DelimIdxs(o) == {i \in 1..Len(o) : o[i].kind = "delim"}

NumChunks(o) == Cardinality(MarkerIdxs(o))

NumDelims(o) == Cardinality(DelimIdxs(o))

\* the index of the last content line of the chunk whose marker is at m
ChunkEnd(o, m) ==
    CHOOSE j \in m..Len(o) :
        /\ \A k \in (m + 1)..j : o[k].kind = "content"
        /\ j < Len(o) => o[j + 1].kind # "content"

\* the content lines of the chunk whose marker is at m
ChunkLinesAt(o, m) == [k \in 1..(ChunkEnd(o, m) - m) |-> o[m + k].text]

\* the position (from 1) of the chunk whose marker is at m
ChunkNo(o, m) == Cardinality({i \in MarkerIdxs(o) : i <= m})

\* the marker string of the chunk whose marker line is at m
MarkerAt(o, m) == SubSeq(o[m].text, 1, Len(o[m].text) - 1)

\* marker_length + 1 + content_length of the chunk whose marker is at m
EmittedLength(o, m) == Len(MarkerAt(o, m)) + 1 + SumLen(ChunkLinesAt(o, m))

\* the number of input lines the for loop has taken
Consumed == IF pc = "while" THEN idx + 1 ELSE idx

-----------------------------------------------------------------------------
(* Claims *)

\* C1: no content loss. The content lines of the output, in order, are
\* exactly the input lines: at the end the whole input, and before the end
\* the output followed by the pending chunk is the input consumed so far.
C1_NoContentLoss ==
    /\ pc = "done" => ContentTexts(out) = lines_list
    /\ pc # "done" =>
         ContentTexts(out) \o chunk_lines = SubSeq(lines_list, 1, Consumed)

\* C1 witness: a finished run of three lines in which a length cut left a
\* remainder that was emitted later
C1_Witness ==
    /\ pc = "done"
    /\ Len(lines_list) = 3
    /\ \E k \in 1..Len(closed_by) : closed_by[k] = "length" /\ k < Len(closed_by)
    /\ ContentTexts(out) = lines_list

\* C2: delimiter count. When the run is over and at least one chunk was
\* emitted, the number of delimiter lines is the number of chunks minus one.
C2_DelimiterCount ==
    (pc = "done" /\ NumChunks(out) >= 1) => NumDelims(out) = NumChunks(out) - 1

\* C2 witness: a finished run whose chunks were closed by a heading boundary,
\* by a length cut and by the end of input
C2_Witness ==
    /\ pc = "done"
    /\ {closed_by[k] : k \in 1..Len(closed_by)} = {"heading", "length", "eof"}
    /\ NumDelims(out) = 2

\* C3: output shape. The stream is chunks of one marker line, one or more
\* content lines and a delimiter exactly when another chunk follows: it
\* starts with a marker, a marker is followed by a content line, a content
\* line is never followed by a marker, a delimiter follows a content line and
\* is followed by a marker, a later marker follows a delimiter, and the
\* finished stream does not end with a delimiter.
C3_OutputShape ==
    /\ out # <<>> => out[1].kind = "marker"
    /\ \A i \in 1..Len(out) :
         /\ out[i].kind = "marker" =>
              /\ i < Len(out) /\ out[i + 1].kind = "content"
              /\ i > 1 => out[i - 1].kind = "delim"
              /\ out[i].text[Len(out[i].text)] = "\n"
         /\ (out[i].kind = "content" /\ i < Len(out)) =>
              out[i + 1].kind \in {"content", "delim"}
         /\ out[i].kind = "delim" =>
              /\ i > 1 /\ out[i - 1].kind = "content"
              /\ i < Len(out) => out[i + 1].kind = "marker"
              /\ out[i].text = DELIM \o <<"\n">>
    /\ pc = "done" => (out = <<>> \/ out[Len(out)].kind = "content")

\* C3 witness: a finished stream of three chunks, the last closed by a length
\* cut on the last input line
C3_Witness ==
    /\ pc = "done"
    /\ NumChunks(out) = 3
    /\ closed_by[Len(closed_by)] = "length"
    /\ out[Len(out)].kind = "content"

\* some line of the chunk at m is over-long on its own
HasOverlongLine(o, m) ==
    \E k \in 1..Len(ChunkLinesAt(o, m)) :
        Len(MarkerAt(o, m)) + 1 + Len(ChunkLinesAt(o, m)[k]) >= max_chunk_length

\* C4 as stated: every emitted chunk that holds no over-long line has
\* marker_length + 1 + content_length < max_chunk_length.
C4_LengthBoundEveryChunk ==
    \A m \in MarkerIdxs(out) :
        ~HasOverlongLine(out, m) => EmittedLength(out, m) < max_chunk_length

\* C4 amended: every emitted chunk that was closed by a heading boundary or by
\* the end of input has marker_length + 1 + content_length < max_chunk_length
\* (a chunk closed by a length cut may exceed the budget).
C4_LengthBoundUnlessCut ==
    \A m \in MarkerIdxs(out) :
        closed_by[ChunkNo(out, m)] \in {"heading", "eof"} =>
            EmittedLength(out, m) < max_chunk_length

\* C4 witness: a finished run in which a length cut fired and a two-line
\* chunk closed by a heading boundary or by the end of input is exactly one
\* character under the budget
C4_Witness ==
    /\ pc = "done"
    /\ \E k \in 1..Len(closed_by) : closed_by[k] = "length"
    /\ \E m \in MarkerIdxs(out) :
         /\ closed_by[ChunkNo(out, m)] \in {"heading", "eof"}
         /\ Len(ChunkLinesAt(out, m)) >= 2
         /\ EmittedLength(out, m) = max_chunk_length - 1

\* the input position (from 1) of the first content line of the chunk at m
FirstInputIdx(o, m) == Cardinality({i \in 1..m : o[i].kind = "content"}) + 1

\* the headings of ls before position i that are shallower than level
ShallowerBefore(ls, i, level) ==
    {j \in 1..(i - 1) : HEADING_PATTERN_match(ls[j]) /\ heading_level(ls[j]) < level}

RECURSIVE HeadingPath(_, _)
\* the titles on the path from the document root to the heading ls[i]: the
\* path of the nearest earlier shallower heading, then the heading's title
HeadingPath(ls, i) ==
    LET P == ShallowerBefore(ls, i, heading_level(ls[i]))
    IN  IF P = {} THEN <<heading_title(ls[i])>>
        ELSE LET j == CHOOSE j \in P : \A k \in P : k <= j
             IN  Append(HeadingPath(ls, j), heading_title(ls[i]))

\* C5: breadcrumb correctness. The marker of every emitted chunk that starts
\* with a heading renders the path from the document root to that heading, so
\* a heading of level L has discarded every open segment of level L or deeper.
C5_BreadcrumbIsHeadingPath ==
    \A m \in MarkerIdxs(out) :
        HEADING_PATTERN_match(out[m + 1].text) =>
            MarkerAt(out, m) = render(HeadingPath(lines_list, FirstInputIdx(out, m)))

IsPrefix(p, t) == Len(p) <= Len(t) /\ SubSeq(t, 1, Len(p)) = p

\* the start of a marker whose first segment is the source name
SourceRootPrefix ==
    SubSeq(render(<<source_name>>), 1, Len(render(<<source_name>>)) - 2)

\* C6: source-name root segment. _split_and_prefix takes a source_name
\* argument and the marker of every emitted chunk starts with the source name
\* as its first path segment.
C6_SourceNameIsRoot ==
    out # <<>> =>
        /\ "source_name" \in split_and_prefix_params
        /\ \A m \in MarkerIdxs(out) :
             \/ MarkerAt(out, m) = render(<<source_name>>)
             \/ IsPrefix(SourceRootPrefix \o <<" ", ">", " ">>, MarkerAt(out, m))

\* C7: totality and termination. A run that keeps being resumed reaches the
\* end of the generator, and every cut of the while loop emits a non-empty
\* left part, so it yields lines and strictly shrinks the pending chunk.
C7_Terminates ==
    /\ <>(pc = "done")
    /\ [][(pc = "while" /\ pc' = "while") =>
            /\ Len(chunk_lines') < Len(chunk_lines)
            /\ Len(out') > Len(out)]_vars

\* C7 witness: the while loop has ended after cutting twice for one input line
C7_Witness == pc = "for" /\ while_cuts >= 2

\* a heading that forces a new chunk
SplitHeading(line) ==
    HEADING_PATTERN_match(line) /\ heading_level(line) <= split_max_level

\* a heading deeper than split_max_level
DeepHeading(line) ==
    HEADING_PATTERN_match(line) /\ heading_level(line) > split_max_level

\* the output lines of one whole chunk followed by a delimiter
WholeChunkWithDelimiter(marker, ls) ==
    <<[kind |-> "marker", text |-> marker \o <<"\n">>]>>
    \o [i \in 1..Len(ls) |-> [kind |-> "content", text |-> ls[i]]]
    \o <<[kind |-> "delim", text |-> DELIM \o <<"\n">>]>>

\* C8: heading boundary. When the incoming line is a heading of level <=
\* split_max_level and the pending chunk is non-empty, the pending chunk is
\* emitted in full with a trailing delimiter and the heading becomes the first
\* line of a new chunk; so in the output every such heading comes right after
\* a marker line, no such heading lies inside the pending chunk, and the
\* finished output holds every such heading of the input.
C8_HeadingBoundary ==
    /\ [][(/\ pc = "for"
           /\ idx < Len(lines_list)
           /\ chunk_lines # <<>>
           /\ SplitHeading(lines_list[idx + 1])) =>
            /\ out' = out \o WholeChunkWithDelimiter(chunk_marker, chunk_lines)
            /\ chunk_lines' = <<lines_list[idx + 1]>>]_vars
    /\ [](/\ \A j \in 1..Len(out) :
                (out[j].kind = "content" /\ SplitHeading(out[j].text)) =>
                    (j > 1 /\ out[j - 1].kind = "marker")
          /\ pc # "done" => \A k \in 2..Len(chunk_lines) : ~SplitHeading(chunk_lines[k])
          /\ pc = "done" =>
                Cardinality({j \in 1..Len(out) :
                               out[j].kind = "content" /\ SplitHeading(out[j].text)})
                  = Cardinality({i \in 1..Len(lines_list) : SplitHeading(lines_list[i])}))

\* C8 witness: a heading has just closed a pending chunk of two lines
C8_Witness ==
    /\ pc = "while"
    /\ closed_by # <<>>
    /\ closed_by[Len(closed_by)] = "heading"
    /\ SplitHeading(lines_list[idx + 1])
    /\ chunk_lines = <<lines_list[idx + 1]>>
    /\ out[Len(out)].kind = "delim"
    /\ Len(ContentTexts(out)) = idx
    /\ \E m \in MarkerIdxs(out) :
         ChunkEnd(out, m) = Len(out) - 1 /\ Len(ChunkLinesAt(out, m)) = 2

Range(f) == {f[i] : i \in DOMAIN f}

\* sub occurs in text as a run of consecutive characters
Contains(text, sub) ==
    \E k \in 0..(Len(text) - Len(sub)) : SubSeq(text, k + 1, k + Len(sub)) = sub

\* a title as it stands in a marker, between double quotes
Quoted(title) == <<"\"">> \o title \o <<"\"">>

\* the content lines of the chunk emitted last
LastChunk(o) ==
    IF MarkerIdxs(o) = {} THEN <<>>
    ELSE ChunkLinesAt(o, CHOOSE m \in MarkerIdxs(o) : \A n \in MarkerIdxs(o) : n <= m)

\* line k of ls is the last heading of its level or shallower in ls
NotReplacedIn(ls, k) ==
    \A j \in (k + 1)..Len(ls) :
        ~(HEADING_PATTERN_match(ls[j]) /\ heading_level(ls[j]) <= heading_level(ls[k]))

\* the first line of the pending chunk is a heading of the level of line or
\* shallower
PendingStartsAtOrAbove(line) ==
    /\ HEADING_PATTERN_match(chunk_lines[1])
    /\ heading_level(chunk_lines[1]) <= heading_level(line)

\* a deep heading arriving while the pending chunk is non-empty is appended
\* to it and nothing is emitted
DeepHeadingJoinsChunk ==
    (/\ pc = "for"
     /\ idx < Len(lines_list)
     /\ chunk_lines # <<>>
     /\ DeepHeading(lines_list[idx + 1])) =>
        /\ out' = out
        /\ chunk_lines' = Append(chunk_lines, lines_list[idx + 1])

\* C9 as stated: a deep heading never closes the pending chunk by the heading
\* boundary rule, and once its chunk has been emitted its title is on the
\* tracker stack and in the marker of the following chunk, unless that chunk
\* starts with a heading of the same or a shallower level.
C9_DeepHeadingOnStack ==
    /\ [][DeepHeadingJoinsChunk]_vars
    /\ [](\A k \in 1..Len(LastChunk(out)) :
            DeepHeading(LastChunk(out)[k]) =>
                /\ heading_title(LastChunk(out)[k]) \in Range(segments)
                /\ (pc # "done" /\ chunk_lines # <<>>
                      /\ ~PendingStartsAtOrAbove(LastChunk(out)[k])) =>
                     Contains(chunk_marker, Quoted(heading_title(LastChunk(out)[k]))))

\* C9 amended: a deep heading never closes the pending chunk by the heading
\* boundary rule, and once its chunk has been emitted its title is on the
\* tracker stack, provided no later heading of the same or a shallower level
\* stands in the same chunk; the marker of the chunk that follows then
\* contains the title unless that chunk starts with a heading of the same or
\* a shallower level.
C9_DeepHeadingOnStackUnlessReplaced ==
    /\ [][DeepHeadingJoinsChunk]_vars
    /\ [](\A k \in 1..Len(LastChunk(out)) :
            (DeepHeading(LastChunk(out)[k]) /\ NotReplacedIn(LastChunk(out), k)) =>
                /\ heading_title(LastChunk(out)[k]) \in Range(segments)
                /\ (pc # "done" /\ chunk_lines # <<>>
                      /\ ~PendingStartsAtOrAbove(LastChunk(out)[k])) =>
                     Contains(chunk_marker, Quoted(heading_title(LastChunk(out)[k]))))

\* C9 witness: a chunk holding a deep heading after its first line was
\* emitted, and the pending chunk, which starts with a plain line, carries
\* the deep heading's title in its marker
C9_Witness ==
    /\ pc = "while"
    /\ chunk_lines # <<>>
    /\ ~HEADING_PATTERN_match(chunk_lines[1])
    /\ \E k \in 2..Len(LastChunk(out)) :
         /\ DeepHeading(LastChunk(out)[k])
         /\ NotReplacedIn(LastChunk(out), k)
         /\ heading_title(LastChunk(out)[k]) \in Range(segments)
         /\ Contains(chunk_marker, Quoted(heading_title(LastChunk(out)[k])))

\* the input positions at which a chunk starts when no length cut fires
RunStarts(ls) ==
    IF ls = <<>> THEN {} ELSE {1} \cup {i \in 2..Len(ls) : SplitHeading(ls[i])}

\* the last position of the run that starts at s
RunEnd(ls, s) ==
    LET later == {t \in RunStarts(ls) : t > s}
    IN  IF later = {} THEN Len(ls)
        ELSE (CHOOSE t \in later : \A u \in later : t <= u) - 1

\* the number of chunks of an input cut at its split headings only
RunCount(ls) ==
    Cardinality({i \in 1..Len(ls) : SplitHeading(ls[i])})
        + (IF ls # <<>> /\ ~SplitHeading(ls[1]) THEN 1 ELSE 0)

\* C10: chunking without length cuts. When the run is over and no length cut
\* has fired, the chunks are the maximal runs of input lines that start at a
\* heading of level <= split_max_level, plus a leading run when the input
\* does not start with such a heading; their number is the number of such
\* headings (plus one for a leading run), one delimiter separates each two
\* and none follows the last.
C10_ChunksAreHeadingRuns ==
    (pc = "done" /\ \A k \in 1..Len(closed_by) : closed_by[k] # "length") =>
        /\ NumChunks(out) = RunCount(lines_list)
        /\ \A m \in MarkerIdxs(out) :
             /\ FirstInputIdx(out, m) \in RunStarts(lines_list)
             /\ ChunkLinesAt(out, m)
                  = SubSeq(lines_list, FirstInputIdx(out, m),
                           RunEnd(lines_list, FirstInputIdx(out, m)))
        /\ NumChunks(out) >= 1 => NumDelims(out) = NumChunks(out) - 1
        /\ out # <<>> => out[Len(out)].kind # "delim"

\* C10 witness: a finished run without length cuts: a leading line, then a
\* heading that opens a second chunk of two lines
C10_Witness ==
    /\ pc = "done"
    /\ \A k \in 1..Len(closed_by) : closed_by[k] # "length"
    /\ Len(lines_list) = 3
    /\ ~SplitHeading(lines_list[1])
    /\ NumChunks(out) = 2
    /\ NumDelims(out) = 1
    /\ \E m \in MarkerIdxs(out) : Len(ChunkLinesAt(out, m)) = 2 /\ m > 1

\* the pending chunk, with its marker, has reached the budget
OverBudget == Len(chunk_marker) + 1 + SumLen(chunk_lines) >= max_chunk_length

\* a line of whitespace only
BlankLine(line) == \A k \in 1..Len(line) : line[k] \in {" ", "\t", "\n", "\r"}

\* a line whose first character is not whitespace
NonIndented(line) == line # <<>> /\ line[1] \notin {" ", "\t", "\n", "\r"}

\* no blank line in ls and no non-indented line after its first line
NoCutPoint(ls) ==
    /\ \A k \in 1..Len(ls) : ~BlankLine(ls[k])
    /\ \A k \in 2..Len(ls) : ~NonIndented(ls[k])

\* the number of content lines among the first j output lines
ContentsUpTo(o, j) == Cardinality({i \in 1..j : o[i].kind = "content"})

\* C11: whole-chunk fallback. When a length cut fires and the pending chunk
\* has no blank line and no non-indented line after its first line, the whole
\* pending chunk is emitted as one chunk although it is over budget; every
\* content line of the output is a whole input line, never a part of one; and
\* an input of one line gives one chunk holding that line and no delimiter.
C11_WholeChunkFallback ==
    /\ [][(/\ pc = "while"
           /\ chunk_lines # <<>>
           /\ OverBudget
           /\ NoCutPoint(chunk_lines)) =>
            /\ chunk_lines' = <<>>
            /\ NumChunks(out') = NumChunks(out) + 1
            /\ LastChunk(out') = chunk_lines
            /\ MarkerAt(out', Len(out) + 1) = chunk_marker]_vars
    /\ [](/\ \A j \in 1..Len(out) :
                out[j].kind = "content" => out[j].text = lines_list[ContentsUpTo(out, j)]
          /\ (pc = "done" /\ Len(lines_list) = 1) =>
                /\ Len(out) = 2
                /\ out[1].kind = "marker"
                /\ out[2] = [kind |-> "content", text |-> lines_list[1]])

\* C11 witness: the fallback has just emitted a pending chunk of two lines
\* that was over budget and had no cut point
C11_Witness ==
    /\ pc = "while"
    /\ chunk_lines = <<>>
    /\ closed_by # <<>>
    /\ closed_by[Len(closed_by)] = "length"
    /\ Len(LastChunk(out)) = 2
    /\ NoCutPoint(LastChunk(out))
    /\ \E m \in MarkerIdxs(out) :
         ChunkLinesAt(out, m) = LastChunk(out) /\ EmittedLength(out, m) >= max_chunk_length

\* the marker of an empty path, the shortest marker there is
ShortestMarker ==
    <<"{", " ", "d", "a", "t", "a", "-", "p", "a", "t", "h", " ", "=", " ", " ", "}">>

\* the generator was called with a budget below the length of every marker
Degenerate == pc # "call" /\ max_chunk_length < Len(ShortestMarker)

\* C12: degenerate budget. When max_chunk_length is smaller than the length
\* of a marker the run still ends and every input line is emitted as a chunk
\* of its own: nothing stays pending between input lines, the number of chunks
\* is the number of input lines and the number of delimiters is one less; and
\* under any budget a chunk whose own marker is longer than the budget holds
\* exactly one line.
C12_DegenerateBudget ==
    /\ Degenerate ~> (pc = "done")
    /\ [](Degenerate =>
            /\ \A m \in MarkerIdxs(out) : Len(ChunkLinesAt(out, m)) = 1
            /\ pc \in {"for", "done"} =>
                 /\ NumChunks(out) = Consumed
                 /\ pc = "for" => chunk_lines = <<>>
            /\ pc = "done" =>
                 /\ NumChunks(out) = Len(lines_list)
                 /\ Len(lines_list) >= 1 => NumDelims(out) = Len(lines_list) - 1)
    /\ [](\A m \in MarkerIdxs(out) :
            max_chunk_length < Len(MarkerAt(out, m)) => Len(ChunkLinesAt(out, m)) = 1)

\* C12 witness: a finished run of three lines under a budget one below the
\* shortest marker: three chunks and two delimiters
C12_Witness ==
    /\ pc = "done"
    /\ max_chunk_length = Len(ShortestMarker) - 1
    /\ Len(lines_list) = 3
    /\ NumChunks(out) = 3
    /\ NumDelims(out) = 2

\* the first_line argument of the last current_marker call (empty for None)
FirstLineArg == IF chunk_lines = <<>> THEN <<>> ELSE chunk_lines[1]

\* the first n entries of segs, or all of them when there are fewer
Take(segs, n) == SubSeq(segs, 1, IF n < Len(segs) THEN n ELSE Len(segs))

\* the path a marker shows for a chunk that starts with first_line
ExpectedPath(segs, first_line) ==
    IF first_line # <<>> /\ HEADING_PATTERN_match(first_line)
    THEN Take(segs, heading_level(first_line) - 1) \o <<heading_title(first_line)>>
    ELSE segs

\* C13: current_marker is pure. A call of current_marker, with a heading, a
\* non-heading line or None, leaves the tracker's segments unchanged; a call
\* repeated with the same argument returns the identical string; and the
\* string returned renders segments[0:L-1] ++ [title] when the first line is
\* a heading of level L and the segments as they are otherwise.
C13_CurrentMarkerIsPure ==
    /\ [][pc' = "current_marker" => segments' = segments]_vars
    /\ [][(pc = "current_marker" /\ pc' = "current_marker"
             /\ chunk_lines' = chunk_lines) => chunk_marker' = chunk_marker]_vars
    /\ [](pc = "current_marker" =>
            chunk_marker = render(ExpectedPath(segments, FirstLineArg)))

\* C13 witness: current_marker has returned for a heading of level 1 while
\* the stack holds two entries: the marker shows one segment and the stack is
\* still two entries long
C13_Witness ==
    /\ pc = "current_marker"
    /\ FirstLineArg = LineH1
    /\ Len(segments) = 2
    /\ segments[1] # <<"A">>
    /\ chunk_marker = render(<<<<"A">>>>)

\* the lines the tracker has ingested so far
Ingested == SubSeq(lines_list, 1, idx)

\* C14: ingest_line. Ingesting a heading line of level L with trimmed title T
\* makes the segments the old segments cut to at most L-1 entries followed by
\* T; ingesting any other line leaves them unchanged. After a skipped level
\* the title is appended right after the entries there are, with no
\* placeholder, and a following heading of the skipped level replaces it:
\* "# A", "### C", "## B" give A, then A > C, then A > B.
C14_IngestLine ==
    /\ [][pc' = "ingest_line" =>
            IF HEADING_PATTERN_match(lines_list[idx + 1])
            THEN segments' = Take(segments, heading_level(lines_list[idx + 1]) - 1)
                               \o <<heading_title(lines_list[idx + 1])>>
            ELSE segments' = segments]_vars
    /\ [](/\ Ingested = <<LineH1>> => segments = <<<<"A">>>>
          /\ Ingested = <<LineH1, LineH3>> => segments = <<<<"A">>, <<"C">>>>
          /\ Ingested = <<LineH1, LineH3, LineH2>> => segments = <<<<"A">>, <<"B">>>>
          /\ Ingested = <<LineH3>> => segments = <<<<"C">>>>
          /\ Ingested = <<LinePadded>> => segments = <<<<"D">>>>
          /\ Ingested = <<LineH1, LineNoSpace>> => segments = <<<<"A">>>>
          /\ Ingested = <<LineH1, LinePlain>> => segments = <<<<"A">>>>)

\* C14 witness: "# A", "### C", "## B" have been ingested and the stack is
\* A > B
C14_Witness ==
    /\ pc = "ingest_line"
    /\ Ingested = <<LineH1, LineH3, LineH2>>
    /\ segments = <<<<"A">>, <<"B">>>>

\* the positions of the headings among the ingested lines
HeadingIdxs == {i \in 1..idx : HEADING_PATTERN_match(lines_list[i])}

\* the level of the heading ingested last
LastHeadingLevel ==
    heading_level(lines_list[CHOOSE i \in HeadingIdxs : \A j \in HeadingIdxs : j <= i])

\* the step ingests a heading line
IngestsHeading == pc' = "ingest_line" /\ HEADING_PATTERN_match(lines_list[idx + 1])

\* C15 as stated: once a heading has been ingested, len(segments) is the
\* level of the heading ingested last; and ingesting a heading of level L
\* leaves segments[0:L-1] unchanged and replaces segments[L-1].
C15_LenIsLevel ==
    /\ [](HeadingIdxs # {} => Len(segments) = LastHeadingLevel)
    /\ [][IngestsHeading =>
            /\ Len(segments') = heading_level(lines_list[idx + 1])
            /\ Len(segments) >= heading_level(lines_list[idx + 1]) - 1
            /\ SubSeq(segments', 1, Len(segments') - 1)
                 = SubSeq(segments, 1, Len(segments') - 1)
            /\ segments'[Len(segments')] = heading_title(lines_list[idx + 1])]_vars

\* C15 amended: once a heading has been ingested, len(segments) is at least 1
\* and at most the level of the heading ingested last; ingesting a heading of
\* level L keeps the first min(L-1, len(segments)) entries, drops the rest and
\* puts the title right after them, so that len(segments) becomes L exactly
\* when the stack held at least L-1 entries.
C15_LenAtMostLevel ==
    /\ [](HeadingIdxs # {} =>
            Len(segments) >= 1 /\ Len(segments) <= LastHeadingLevel)
    /\ [][IngestsHeading =>
            /\ Len(segments') = Len(Take(segments, heading_level(lines_list[idx + 1]) - 1)) + 1
            /\ SubSeq(segments', 1, Len(segments') - 1)
                 = SubSeq(segments, 1, Len(segments') - 1)
            /\ segments'[Len(segments')] = heading_title(lines_list[idx + 1])
            /\ (Len(segments') = heading_level(lines_list[idx + 1]))
                 <=> (Len(segments) >= heading_level(lines_list[idx + 1]) - 1)]_vars

\* C15 witness: a heading of level 3 was ingested right after one of level 1
\* and the stack holds two entries
C15_Witness ==
    /\ pc = "ingest_line"
    /\ idx = 2
    /\ HEADING_PATTERN_match(lines_list[1]) /\ heading_level(lines_list[1]) = 1
    /\ HEADING_PATTERN_match(lines_list[2]) /\ heading_level(lines_list[2]) = 3
    /\ Len(segments) = 2
    /\ LastHeadingLevel = 3

\* one character of a segment as it stands in a marker
EscapedChar(c) ==
    IF c = "\\" THEN <<"\\", "\\">>
    ELSE IF c = "\"" THEN <<"\\", "\"">>
    ELSE <<c>>

RECURSIVE Escaped(_)
\* a segment with every backslash doubled and every double quote preceded by
\* one backslash
Escaped(text) ==
    IF text = <<>> THEN <<>> ELSE EscapedChar(Head(text)) \o Escaped(Tail(text))

RECURSIVE QuotedPath(_)
\* the segments, each between double quotes, joined by " > "
QuotedPath(segs) ==
    IF segs = <<>> THEN <<>>
    ELSE IF Len(segs) = 1 THEN Quoted(Escaped(segs[1]))
    ELSE Quoted(Escaped(segs[1])) \o <<" ", ">", " ">> \o QuotedPath(Tail(segs))

\* the marker text of a path
MarkerText(segs) ==
    <<"{", " ", "d", "a", "t", "a", "-", "p", "a", "t", "h", " ", "=", " ">>
        \o QuotedPath(segs) \o <<" ", "}">>

\* text neither starts nor ends with whitespace
NoOuterWhitespace(text) ==
    text = <<>> \/ (~BlankLine(<<text[1]>>) /\ ~BlankLine(<<text[Len(text)]>>))

\* C16: marker rendering. The marker of segments s1..sn is '{ data-path = ',
\* the segments each between double quotes and joined by ' > ', and ' }'; an
\* empty segment list gives '{ data-path =  }'; in a segment every backslash
\* is doubled and every double quote is preceded by one backslash, the
\* backslash of an escaped quote not being doubled again; and a segment has
\* no leading or trailing whitespace.
C16_MarkerRendering ==
    pc = "current_marker" =>
        /\ chunk_marker = MarkerText(ExpectedPath(segments, FirstLineArg))
        /\ ExpectedPath(segments, FirstLineArg) = <<>> => chunk_marker = ShortestMarker
        /\ \A i \in 1..Len(ExpectedPath(segments, FirstLineArg)) :
             /\ NoOuterWhitespace(ExpectedPath(segments, FirstLineArg)[i])
             /\ NoOuterWhitespace(Escaped(ExpectedPath(segments, FirstLineArg)[i]))

\* C16 witness: a marker of two segments, the first of them the title of a
\* backslash and a double quote, rendered as two backslashes, a backslash and
\* the quote
C16_Witness ==
    /\ pc = "current_marker"
    /\ Len(ExpectedPath(segments, FirstLineArg)) = 2
    /\ ExpectedPath(segments, FirstLineArg)[1] = <<"\\", "\"">>
    /\ Contains(chunk_marker,
                <<"=", " ", "\"", "\\", "\\", "\\", "\"", "\"", " ", ">", " ", "\"">>)

\* the state of a run on its own: lines yielded, tracker stack, pending chunk
AloneStart == [out |-> <<>>, segs |-> <<>>, marker |-> <<>>, lines |-> <<>>]

\* a run on its own closes its pending chunk
AloneEmit(st, add_delimiter) ==
    [out |-> st.out \o emit_chunk(st.marker, st.lines, add_delimiter),
     segs |-> ingest_all(st.segs, st.lines),
     marker |-> <<>>,
     lines |-> <<>>]

\* a run on its own appends a line to its pending chunk
AloneAppend(st, line) ==
    [st EXCEPT !.marker = IF st.lines = <<>> THEN current_marker(st.segs, line) ELSE @,
               !.lines = Append(@, line)]

RECURSIVE AloneCuts(_, _, _, _)
\* a run on its own cuts its pending chunk until it is under the budget
AloneCuts(st, last, limit, level) ==
    IF st.lines = <<>> \/ Len(st.marker) + 1 + SumLen(st.lines) < limit THEN st
    ELSE LET cut == cut_idx_of(RescanHeading(st.lines, level), RescanBlank(st.lines),
                               RescanNonindent(st.lines), Len(st.lines))
             left == left_of(st.lines, cut)
             right == right_of(st.lines, cut)
             segs1 == ingest_all(st.segs, left)
         IN  AloneCuts([out |-> st.out \o emit_chunk(st.marker, left,
                                                       right # <<>> \/ ~last),
                        segs |-> segs1,
                        marker |-> IF right = <<>> THEN <<>>
                                   ELSE current_marker(segs1, right[1]),
                        lines |-> right],
                       last, limit, level)

RECURSIVE AloneFrom(_, _, _, _, _)
\* the lines a run on its own yields from input line i on
AloneFrom(st, lines, i, limit, level) ==
    IF i > Len(lines) THEN AloneEmit(st, FALSE).out
    ELSE LET closed == IF st.lines # <<>> /\ is_split_heading(lines[i], level)
                       THEN AloneEmit(st, TRUE) ELSE st
         IN  AloneFrom(AloneCuts(AloneAppend(closed, lines[i]), i = Len(lines),
                                 limit, level),
                       lines, i + 1, limit, level)

\* the whole output of one invocation run on its own
RunAlone(lines, limit, level) == AloneFrom(AloneStart, lines, 1, limit, level)

\* the output of a frame is what its invocation yields on its own, up to the
\* point the frame has reached
AsAlone(f) ==
    /\ IsPrefix(f.out, RunAlone(f.lines_list, f.max_chunk_length, f.split_max_level))
    /\ f.pc = "done" =>
         f.out = RunAlone(f.lines_list, f.max_chunk_length, f.split_max_level)

\* C17: instance independence. Of two invocations whose consumption is
\* interleaved in any order, each yields exactly the lines it yields when it
\* runs alone; a step of one invocation leaves the locals and the tracker of
\* the other untouched, and an invocation that is resumed finds its locals
\* and its tracker as it left them.
C17_InstanceIndependence ==
    /\ [](AsAlone(CurrentFrame) /\ AsAlone(other))
    /\ [][\/ other' = other
          \/ other' = CurrentFrame /\ CurrentFrame' = other]_vars

\* C17 witness: both invocations are in the middle of their runs, each has
\* yielded lines already, and their trackers hold different stacks
C17_Witness ==
    /\ pc = "while"
    /\ other.pc = "while"
    /\ idx = 1
    /\ other.idx = 1
    /\ out # <<>>
    /\ other.out # <<>>
    /\ out # other.out
    /\ segments = <<<<"A">>>>
    /\ other.segments = <<<<"B">>>>

\* C18: incremental driving. The splitter can be driven line by line: when
\* the lines of a chunk have become available, no input line after the one
\* that closed the chunk (the last one the for loop has taken) has been read
\* from the input sequence.
C18_IncrementalDriving ==
    (out # <<>> /\ pc # "done") => lines_read <= Consumed

\* C19: length trigger. With a pending chunk, the while loop cuts exactly
\* when marker_length + 1 + the sum of the content-line lengths is at least
\* max_chunk_length (a chunk at max_chunk_length - 1 is not cut), the marker
\* counted being the one the pending chunk is emitted with and the sum being
\* that of its lines. So between input lines the pending chunk is empty or
\* strictly under budget, and every chunk closed by a heading boundary or by
\* the end of input is strictly under budget.
C19_LengthTrigger ==
    /\ [][(pc = "while" /\ chunk_lines # <<>>) =>
            /\ (Len(out') > Len(out)) <=> OverBudget
            /\ (pc' = "for" /\ out' = out /\ chunk_lines' = chunk_lines) <=> ~OverBudget]_vars
    /\ [][Len(out') > Len(out) => MarkerAt(out', Len(out) + 1) = chunk_marker]_vars
    /\ [](/\ chunk_content_chars = SumLen(chunk_lines)
          /\ pc = "for" => (chunk_lines = <<>> \/ ~OverBudget)
          /\ \A m \in MarkerIdxs(out) :
                closed_by[ChunkNo(out, m)] # "length" =>
                    Len(out[m].text) + SumLen(ChunkLinesAt(out, m)) < max_chunk_length)

\* C19 witness: the while loop has left a pending chunk of two lines whose
\* length is max_chunk_length - 1 uncut
C19_Witness ==
    /\ pc = "for"
    /\ idx = 2
    /\ Len(chunk_lines) = 2
    /\ Len(chunk_marker) + 1 + SumLen(chunk_lines) = max_chunk_length - 1
    /\ out = <<>>

\* the positions (from 1) of the blank lines of ls
BlankPositions(ls) == {k \in 1..Len(ls) : BlankLine(ls[k])}

\* the position of the last blank line of ls
LastBlankOf(ls) == CHOOSE k \in BlankPositions(ls) : \A j \in BlankPositions(ls) : j <= k

\* C20: blank-line cut and its priority. When a length cut fires and the
\* pending chunk holds a blank line, at any index, the first one and the line
\* just appended included, the chunk is cut at its last blank line: the lines
\* up to and including that blank line are emitted as one chunk and the lines
\* after it stay pending, also when a non-indented line stands later in the
\* chunk than the blank line.
C20_BlankLineCut ==
    [][(/\ pc = "while"
        /\ OverBudget
        /\ BlankPositions(chunk_lines) # {}) =>
         /\ NumChunks(out') = NumChunks(out) + 1
         /\ LastChunk(out') = SubSeq(chunk_lines, 1, LastBlankOf(chunk_lines))
         /\ BlankLine(out'[Len(out') - (IF out'[Len(out')].kind = "delim" THEN 1 ELSE 0)].text)
         /\ chunk_lines' = SubSeq(chunk_lines, LastBlankOf(chunk_lines) + 1,
                                  Len(chunk_lines))]_vars

\* C20 witness: a pending chunk of a blank line, an indented line and a
\* non-indented line was cut at the blank line
C20_Witness ==
    /\ pc = "while"
    /\ closed_by # <<>>
    /\ closed_by[Len(closed_by)] = "length"
    /\ LastChunk(out) = <<LineBlank>>
    /\ chunk_lines = <<LineIndented, LinePlain>>
    /\ idx = 2

\* the positions (from 1) after the first of the non-blank lines of ls that
\* have no leading whitespace
NonIndentPositions(ls) ==
    {k \in 2..Len(ls) : ~BlankLine(ls[k]) /\ NonIndented(ls[k])}

\* the position of the last such line of ls
LastNonIndentOf(ls) ==
    CHOOSE k \in NonIndentPositions(ls) : \A j \in NonIndentPositions(ls) : j <= k

\* C21: non-indent cut. When a length cut fires and the pending chunk has no
\* blank line but has, after its first line, a non-blank line without leading
\* whitespace, the chunk is cut just before the last such line: the lines
\* before it are emitted as one chunk and it becomes the first line of the
\* remainder.
C21_NonIndentCut ==
    [][(/\ pc = "while"
        /\ OverBudget
        /\ BlankPositions(chunk_lines) = {}
        /\ NonIndentPositions(chunk_lines) # {}) =>
         /\ NumChunks(out') = NumChunks(out) + 1
         /\ LastChunk(out') = SubSeq(chunk_lines, 1, LastNonIndentOf(chunk_lines) - 1)
         /\ chunk_lines' = SubSeq(chunk_lines, LastNonIndentOf(chunk_lines),
                                  Len(chunk_lines))
         /\ chunk_lines'[1] = chunk_lines[LastNonIndentOf(chunk_lines)]]_vars

\* C21 witness: a pending chunk of a plain line, an indented line and a plain
\* line was cut before its last line
C21_Witness ==
    /\ pc = "while"
    /\ closed_by # <<>>
    /\ closed_by[Len(closed_by)] = "length"
    /\ LastChunk(out) = <<LinePlain, LineIndented>>
    /\ chunk_lines = <<LinePlain>>
    /\ idx = 2

\* the number of lines a length cut puts in the left part when only the
\* blank-line rule, the non-indent rule and the fallback are looked at
CutWithoutHeadingRule(ls) ==
    IF BlankPositions(ls) # {} THEN LastBlankOf(ls)
    ELSE IF NonIndentPositions(ls) # {} THEN LastNonIndentOf(ls) - 1
    ELSE Len(ls)

\* C22: heading cut point. In every reachable state the pending chunk holds
\* no heading of level <= split_max_level after its first line, whether it
\* was just appended to or is a rescanned remainder, and last_heading_idx is
\* never positive; so every length cut is the one the blank-line rule, the
\* non-indent rule or the fallback selects.
C22_NoHeadingCut ==
    /\ [](/\ \A k \in 2..Len(chunk_lines) : ~SplitHeading(chunk_lines[k])
          /\ last_heading_idx <= 0)
    /\ [][(pc = "while" /\ Len(out') > Len(out)) =>
            /\ LastChunk(out') = SubSeq(chunk_lines, 1, CutWithoutHeadingRule(chunk_lines))
            /\ \A k \in 2..Len(chunk_lines') : ~SplitHeading(chunk_lines'[k])]_vars

\* C22 witness: a chunk that starts with a heading of level <= split_max_level
\* was cut by length after its second line and the remainder was rescanned
C22_Witness ==
    /\ pc = "while"
    /\ closed_by # <<>>
    /\ closed_by[Len(closed_by)] = "length"
    /\ Len(LastChunk(out)) = 2
    /\ SplitHeading(LastChunk(out)[1])
    /\ chunk_lines # <<>>
    /\ last_heading_idx = -1

RECURSIVE StackAfter(_)
\* the stack of a new tracker that was given the lines ls one after another
StackAfter(ls) ==
    IF ls = <<>> THEN <<>>
    ELSE IF HEADING_PATTERN_match(ls[Len(ls)])
         THEN Take(StackAfter(SubSeq(ls, 1, Len(ls) - 1)), heading_level(ls[Len(ls)]) - 1)
                \o <<heading_title(ls[Len(ls)])>>
         ELSE StackAfter(SubSeq(ls, 1, Len(ls) - 1))

\* C23 as stated: every input line is given to the tracker before or when it
\* is appended to the pending chunk, so at any time the tracker has ingested
\* every input line consumed so far, the lines of the pending chunk included.
C23_IngestBeforeAppend ==
    segments = StackAfter(SubSeq(lines_list, 1, Consumed))

\* C23 amended: an input line is given to the tracker when the chunk that
\* holds it is emitted, not when it is appended: at any time the tracker has
\* ingested exactly the content lines yielded so far, which are the input
\* lines consumed so far without those of the pending chunk; when nothing is
\* pending it has ingested every input line consumed so far.
C23_IngestAtEmit ==
    /\ segments = StackAfter(ContentTexts(out))
    /\ pc # "done" =>
         /\ Len(ContentTexts(out)) = Consumed - Len(chunk_lines)
         /\ chunk_lines = <<>> => segments = StackAfter(SubSeq(lines_list, 1, Consumed))
    /\ pc = "done" => segments = StackAfter(lines_list)

\* C23 witness: a chunk was emitted and the pending chunk holds, after its
\* first line, a heading the tracker has not ingested
C23_Witness ==
    /\ pc = "while"
    /\ out # <<>>
    /\ Len(chunk_lines) = 2
    /\ HEADING_PATTERN_match(chunk_lines[2])
    /\ heading_title(chunk_lines[2]) \notin Range(segments)
    /\ segments # StackAfter(SubSeq(lines_list, 1, Consumed))

\* the marker of a chunk whose first line is first_line and that comes after
\* the input lines before
MarkerAfter(before, first_line) ==
    render(ExpectedPath(StackAfter(before), first_line))

\* C24: the marker depends only on the past. The marker of every emitted
\* chunk, opened at the start, after a heading boundary or as the remainder
\* of a length cut, renders the stack obtained by ingesting exactly the input
\* lines before the chunk's first line, adjusted by the lookahead on that
\* first line, so no heading after the first line of the chunk shows in it;
\* the pending chunk's marker is computed the same way, and the marker a chunk
\* is emitted with is the one its length checks counted.
C24_MarkerFromPast ==
    /\ [](/\ \A m \in MarkerIdxs(out) :
                MarkerAt(out, m)
                  = MarkerAfter(SubSeq(lines_list, 1, FirstInputIdx(out, m) - 1),
                                out[m + 1].text)
          /\ (pc # "done" /\ chunk_lines # <<>>) =>
                chunk_marker = MarkerAfter(ContentTexts(out), chunk_lines[1]))
    /\ [][Len(out') > Len(out) =>
            out'[Len(out) + 1] = [kind |-> "marker", text |-> chunk_marker \o <<"\n">>]]_vars

\* C24 witness: the remainder of a length cut, which starts with a heading,
\* was emitted as the second chunk with that heading's title in its marker
C24_Witness ==
    /\ pc = "while"
    /\ while_cuts = 2
    /\ NumChunks(out) = 2
    /\ HEADING_PATTERN_match(LastChunk(out)[1])
    /\ \E m \in MarkerIdxs(out) :
         /\ m > 1
         /\ Contains(MarkerAt(out, m), Quoted(heading_title(LastChunk(out)[1])))

\* the splitter was called with an empty line sequence
EmptyInput == pc # "call" /\ lines_list = <<>>

\* C25: empty input. Called with an empty line sequence the splitter runs to
\* its end without an error and emits nothing at any point: no marker line,
\* no content line and no delimiter line.
C25_EmptyInput ==
    /\ [](EmptyInput => out = <<>> /\ closed_by = <<>> /\ while_cuts = 0)
    /\ (EmptyInput ~> (EmptyInput /\ pc = "done" /\ out = <<>>))

\* C25 witness: the call with an empty input has finished
C25_Witness == EmptyInput /\ pc = "done" /\ idx = 0 /\ chunk_lines = <<>>

\* a chunk is pending: lines are buffered and the generator has not finished
PendingChunk == pc # "done" /\ chunk_lines # <<>>

-----------------------------------------------------------------------------
(* The splitter run on inputs with malformed headings: "####### A\n" (seven  *)
(* hashes), "#A\n" (no whitespace after the hash), " # A\n" (whitespace      *)
(* before the hash), next to well-formed headings and a plain line.          *)

LineSevenHashes == <<"#", "#", "#", "#", "#", "#", "#", " ", "A", "\n">>
LineLeadingSpace == <<" ", "#", " ", "A", "\n">>

MalformedAlphabet ==
    {LineH1, LineH2, LinePlain, LineSevenHashes, LineNoSpace, LineLeadingSpace}

MalformedBudgetChoices == {25, 64}

MalformedSplitLevels == {1, MaxHashes}

MalformedInputLines == UNION {[1..n -> MalformedAlphabet] : n \in 0..MaxLines}

MalformedInit ==
    /\ lines_list \in MalformedInputLines
    /\ max_chunk_length \in MalformedBudgetChoices
    /\ split_max_level \in MalformedSplitLevels
    /\ pc = "for"
    /\ idx = 0
    /\ segments = <<>>
    /\ chunk_lines = <<>>
    /\ chunk_marker = <<>>
    /\ chunk_content_chars = 0
    /\ last_blank_idx = -1
    /\ last_heading_idx = -1
    /\ last_nonindent_idx = -1
    /\ out = <<>>
    /\ closed_by = <<>>
    /\ while_cuts = 0
    /\ other = NoInvocation
    /\ TableIdle
    /\ PageIdle

MalformedSpec == MalformedInit /\ [][Next]_vars

\* the number of # characters a line has after its leading blanks and tabs
RECURSIVE HashesAfterIndent(_)
HashesAfterIndent(line) ==
    IF line # <<>> /\ Head(line) \in {" ", "\t"}
    THEN HashesAfterIndent(Tail(line))
    ELSE HashRun(line)

\* a line that looks like a heading and is none: seven or more hashes, hashes
\* not followed by whitespace, or whitespace before the hashes
MalformedHeading(line) ==
    \/ HashRun(line) >= 7
    \/ /\ HashRun(line) >= 1
       /\ \/ Len(line) = HashRun(line)
          \/ line[HashRun(line) + 1] \notin {" ", "\t", "\n", "\r"}
    \/ /\ line # <<>>
       /\ Head(line) \in {" ", "\t"}
       /\ HashesAfterIndent(line) >= 1

\* the lines of ls that are not malformed headings
WellFormed(ls) == SelectSeq(ls, LAMBDA l : ~MalformedHeading(l))

\* C26: malformed headings are plain text. A line with seven or more hashes,
\* with hashes not followed by whitespace, or with whitespace before the
\* hashes is appended to the pending chunk without closing it, whatever
\* split_max_level is; the tracker's segments are what the well-formed
\* headings emitted so far make them, as if the malformed lines were absent;
\* a chunk that starts with such a line has the marker of the plain stack;
\* and every such line of the input is yielded as a content line.
C26_MalformedIsPlain ==
    /\ [][(/\ pc = "for"
           /\ idx < Len(lines_list)
           /\ MalformedHeading(lines_list[idx + 1])) =>
             /\ out' = out
             /\ closed_by' = closed_by
             /\ chunk_lines' = Append(chunk_lines, lines_list[idx + 1])]_vars
    /\ [](/\ segments = StackAfter(WellFormed(ContentTexts(out)))
          /\ \A m \in MarkerIdxs(out) :
                MalformedHeading(out[m + 1].text) =>
                    MarkerAt(out, m)
                      = render(StackAfter(WellFormed(
                            SubSeq(lines_list, 1, FirstInputIdx(out, m) - 1))))
          /\ (pc # "done" /\ chunk_lines # <<>> /\ MalformedHeading(chunk_lines[1])) =>
                chunk_marker = render(segments)
          /\ pc = "done" => ContentTexts(out) = lines_list)

\* C26 witness: a run over a seven-hash line and another malformed line has
\* finished; a chunk after the first starts with a malformed line, under a
\* tracker that holds a heading
C26_Witness ==
    /\ pc = "done"
    /\ segments # <<>>
    /\ \E k \in 1..Len(lines_list) : HashRun(lines_list[k]) >= 7
    /\ \E k \in 1..Len(lines_list) :
         MalformedHeading(lines_list[k]) /\ HashRun(lines_list[k]) < 7
    /\ \E m \in MarkerIdxs(out) :
         /\ m > 1
         /\ MalformedHeading(out[m + 1].text)
         /\ Contains(MarkerAt(out, m), Quoted(<<"A">>))

-----------------------------------------------------------------------------
(* _normalize_markdown_tables.  The text is a sequence of characters; the    *)
(* function is applied in one step.  Line indices are 1-based here: the      *)
(* sequence element for Python index i is lines[i + 1].                      *)

TableMaxLines == 4

\* the grave accent (U+0060), which a TLA+ string cannot hold, under a name
Backtick == "grave"

\* lines without terminator: "|a| \" |", "|a|a|", "|---|:---|", "|1|", a fence of
\* three grave accents, "~~~", "x" and the empty line
RowAQ == <<"|", "a", "|", " ", "\"", " ", "|">>
RowAA == <<"|", "a", "|", "a", "|">>
RowAlign == <<"|", "-", "-", "-", "|", ":", "-", "-", "-", "|">>
RowOne == <<"|", "1", "|">>
LineFence == <<Backtick, Backtick, Backtick>>
LineTilde == <<"~", "~", "~">>
LineText == <<"x">>
LineEmpty == <<>>

TableAlphabet ==
    {RowAQ, RowAA, RowAlign, RowOne, LineFence, LineTilde, LineText, LineEmpty}

TableLineSeqs == UNION {[1..n -> TableAlphabet] : n \in 0..TableMaxLines}

RECURSIVE Terminated(_, _)
\* every line of ls followed by the terminator t
Terminated(ls, t) ==
    IF ls = <<>> THEN <<>> ELSE Head(ls) \o t \o Terminated(Tail(ls), t)

\* the texts md_text is drawn from: lines ended by "\n", the same without the
\* last "\n", and lines ended by "\r\n"
TableTexts ==
    UNION {{Terminated(ls, <<"\n">>),
            IF ls = <<>> THEN <<>>
            ELSE SubSeq(Terminated(ls, <<"\n">>), 1, Len(Terminated(ls, <<"\n">>)) - 1),
            Terminated(ls, <<"\r", "\n">>)} : ls \in TableLineSeqs}

RECURSIVE splitlines_from(_, _)
\* str.splitlines() for the terminators "\n", "\r" and "\r\n": cur is the line
\* read so far; a last line without terminator counts only if it is not empty
splitlines_from(s, cur) ==
    IF s = <<>> THEN (IF cur = <<>> THEN <<>> ELSE <<cur>>)
    ELSE IF Head(s) = "\n" THEN <<cur>> \o splitlines_from(Tail(s), <<>>)
    ELSE IF Head(s) = "\r"
         THEN <<cur>> \o splitlines_from(IF Len(s) >= 2 /\ s[2] = "\n"
                                         THEN Tail(Tail(s)) ELSE Tail(s), <<>>)
    ELSE splitlines_from(Tail(s), Append(cur, Head(s)))

splitlines(s) == splitlines_from(s, <<>>)

RECURSIVE split_from(_, _, _)
\* str.split(sep) for a one-character sep: cur is the piece read so far
split_from(s, sep, cur) ==
    IF s = <<>> THEN <<cur>>
    ELSE IF Head(s) = sep THEN <<cur>> \o split_from(Tail(s), sep, <<>>)
    ELSE split_from(Tail(s), sep, Append(cur, Head(s)))

split_table_row(line) ==
    LET stripped == strip(line)
        s1 == IF stripped # <<>> /\ Head(stripped) = "|" THEN Tail(stripped) ELSE stripped
        s2 == IF s1 # <<>> /\ s1[Len(s1)] = "|" THEN SubSeq(s1, 1, Len(s1) - 1) ELSE s1
        cells == split_from(s2, "|", <<>>)
    IN  IF stripped = <<>> THEN <<>>
        ELSE [k \in 1..Len(cells) |-> strip(cells[k])]

\* ^:?-{3,}:?$
ALIGN_CELL_PATTERN_match(cell) ==
    LET a == IF cell # <<>> /\ Head(cell) = ":" THEN Tail(cell) ELSE cell
        b == IF a # <<>> /\ a[Len(a)] = ":" THEN SubSeq(a, 1, Len(a) - 1) ELSE a
    IN  Len(b) >= 3 /\ \A k \in 1..Len(b) : b[k] = "-"

is_table_row(line) ==
    LET stripped == strip(line) IN stripped # <<>> /\ Head(stripped) = "|"

is_table_header(line) == Len(split_table_row(line)) >= 2

is_alignment_line(line, expected_cols) ==
    /\ is_table_row(line)
    /\ Len(split_table_row(line)) = expected_cols
    /\ \A k \in 1..expected_cols :
         ALIGN_CELL_PATTERN_match(replace(split_table_row(line)[k], " ", <<>>))

\* stripped.startswith of three grave accents
is_fence(line) ==
    LET stripped == strip(line)
    IN  Len(stripped) >= 3 /\ SubSeq(stripped, 1, 3) = <<Backtick, Backtick, Backtick>>

RECURSIVE data_rows(_, _, _)
\* the inner while loop: the rows collected from lines[j] on
data_rows(lines, j, n) ==
    IF j > Len(lines) THEN <<>>
    ELSE IF strip(lines[j]) = <<>> THEN <<>>
    ELSE IF ~is_table_row(lines[j]) THEN <<>>
    ELSE IF Len(split_table_row(lines[j])) # n THEN <<>>
    ELSE <<split_table_row(lines[j])>> \o data_rows(lines, j + 1, n)

\* a dict is the sequence of its <<key, value>> pairs in insertion order:
\* d[key] = value
dict_set(d, key, value) ==
    IF \E k \in 1..Len(d) : d[k][1] = key
    THEN [k \in 1..Len(d) |-> IF d[k][1] = key THEN <<key, value>> ELSE d[k]]
    ELSE Append(d, <<key, value>>)

RECURSIVE dict_of_row(_, _, _)
\* {header_cells[idx]: row[idx] for idx in range(n)}
dict_of_row(header_cells, row, n) ==
    IF n = 0 THEN <<>>
    ELSE dict_set(dict_of_row(header_cells, row, n - 1), header_cells[n], row[n])

RECURSIVE json_escape(_)
\* the escapes of json.dumps(ensure_ascii=False) for the characters of a cell
json_escape(s) ==
    IF s = <<>> THEN <<>>
    ELSE (CASE Head(s) = "\"" -> <<"\\", "\"">>
            [] Head(s) = "\\" -> <<"\\", "\\">>
            [] Head(s) = "\t" -> <<"\\", "t">>
            [] OTHER -> <<Head(s)>>) \o json_escape(Tail(s))

json_string(s) == <<"\"">> \o json_escape(s) \o <<"\"">>

RECURSIVE json_items(_)
json_items(obj) ==
    IF obj = <<>> THEN <<>>
    ELSE json_string(Head(obj)[1]) \o <<":", " ">> \o json_string(Head(obj)[2])
         \o (IF Len(obj) = 1 THEN <<>> ELSE <<",", " ">> \o json_items(Tail(obj)))

\* json.dumps(obj, ensure_ascii=False) of a dict of strings
json_dumps(obj) == <<"{">> \o json_items(obj) \o <<"}">>

\* an output line with its role; a row keeps the cells it was made from
Passed(line) == [kind |-> "line", text |-> line, header |-> <<>>, cells |-> <<>>]

JsonBlock(header_cells, rows) ==
    <<[kind |-> "open", text |-> <<Backtick, Backtick, Backtick, "j", "s", "o", "n">>,
       header |-> <<>>, cells |-> <<>>]>>
    \o [r \in 1..Len(rows) |->
          [kind |-> "row",
           text |-> json_dumps(dict_of_row(header_cells, rows[r], Len(header_cells))),
           header |-> header_cells, cells |-> rows[r]]]
    \o <<[kind |-> "close", text |-> <<Backtick, Backtick, Backtick>>, header |-> <<>>, cells |-> <<>>]>>

RECURSIVE normalize_from(_, _, _)
\* the while loop of _normalize_markdown_tables from lines[i] on
normalize_from(lines, i, in_code_block) ==
    IF i > Len(lines) THEN <<>>
    ELSE IF is_fence(lines[i])
         THEN <<Passed(lines[i])>> \o normalize_from(lines, i + 1, ~in_code_block)
    ELSE LET header_cells == split_table_row(lines[i])
             table == /\ ~in_code_block
                      /\ is_table_row(lines[i])
                      /\ is_table_header(lines[i])
                      /\ header_cells # <<>>
                      /\ i + 1 <= Len(lines)
                      /\ is_alignment_line(lines[i + 1], Len(header_cells))
             rows == IF table THEN data_rows(lines, i + 2, Len(header_cells)) ELSE <<>>
         IN  IF rows # <<>>
             THEN JsonBlock(header_cells, rows)
                  \o normalize_from(lines, i + 2 + Len(rows), in_code_block)
             ELSE <<Passed(lines[i])>> \o normalize_from(lines, i + 1, in_code_block)

RECURSIVE join_newline(_)
\* "\n".join(result)
join_newline(texts) ==
    IF texts = <<>> THEN <<>>
    ELSE IF Len(texts) = 1 THEN texts[1]
    ELSE Head(texts) \o <<"\n">> \o join_newline(Tail(texts))

\* the locals of the splitter and the frame of its second invocation
splitter_vars ==
    <<lines_list, max_chunk_length, split_max_level, idx, segments, chunk_lines,
      chunk_marker, chunk_content_chars, last_blank_idx, last_heading_idx,
      last_nonindent_idx, out, closed_by, while_cuts, other>>

\* the splitter is not running
SplitterIdle ==
    /\ lines_list = <<>>
    /\ max_chunk_length = 1
    /\ split_max_level = 1
    /\ idx = 0
    /\ segments = <<>>
    /\ chunk_lines = <<>>
    /\ chunk_marker = <<>>
    /\ chunk_content_chars = 0
    /\ last_blank_idx = -1
    /\ last_heading_idx = -1
    /\ last_nonindent_idx = -1
    /\ out = <<>>
    /\ closed_by = <<>>
    /\ while_cuts = 0
    /\ other = NoInvocation

TableInit ==
    /\ pc = "normalize"
    /\ md_text \in TableTexts
    /\ result = <<>>
    /\ normalized = <<>>
    /\ SplitterIdle
    /\ PageIdle

\* one call of _normalize_markdown_tables(md_text)
Normalize ==
    /\ pc = "normalize"
    /\ \E res \in {normalize_from(splitlines(md_text), 1, FALSE)} :
         /\ result' = res
         /\ normalized' =
              join_newline([k \in 1..Len(res) |-> res[k].text])
              \o (IF md_text # <<>> /\ md_text[Len(md_text)] = "\n"
                  THEN <<"\n">> ELSE <<>>)
    /\ pc' = "return"
    /\ UNCHANGED <<md_text, page_vars, splitter_vars>>

TableNext == Normalize

TableSpec == TableInit /\ [][TableNext]_vars

\* the call of _normalize_markdown_tables has returned
Returned == pc = "return"

\* the texts of the output lines of one role
TextsOf(res, kind) ==
    LET sel == SelectSeq(res, LAMBDA e : e.kind = kind)
    IN  [k \in 1..Len(sel) |-> sel[k].text]

\* a line that opens or closes a fenced code block of Markdown: three grave
\* accents or three tildes after optional blanks
FenceOf(line) ==
    LET t == strip(line)
    IN  IF Len(t) >= 3 /\ SubSeq(t, 1, 3) = <<Backtick, Backtick, Backtick>> THEN "grave"
        ELSE IF Len(t) >= 3 /\ SubSeq(t, 1, 3) = <<"~", "~", "~">> THEN "tilde"
        ELSE "none"

RECURSIVE OpenFenceAfter(_, _)
\* the fence that is open after the first k lines of ls: a code block opened
\* by a fence is closed by the next fence of the same character
OpenFenceAfter(ls, k) ==
    IF k = 0 THEN "none"
    ELSE LET before == OpenFenceAfter(ls, k - 1)
         IN  IF before = "none" THEN FenceOf(ls[k])
             ELSE IF FenceOf(ls[k]) = before THEN "none"
             ELSE before

\* line k of ls is a fence or stands inside a fenced code block
InCodeBlock(ls, k) ==
    OpenFenceAfter(ls, k - 1) # "none" \/ OpenFenceAfter(ls, k) # "none"

\* a data row of width n
IsDataRow(line, n) ==
    strip(line) # <<>> /\ is_table_row(line) /\ Len(split_table_row(line)) = n

\* a recognized table starts at line k of ls: outside every code block, a
\* header row of at least two cells, an alignment row and a data row of the
\* same width
RecognizedAt(ls, k) ==
    /\ ~InCodeBlock(ls, k)
    /\ k + 2 <= Len(ls)
    /\ is_table_row(ls[k])
    /\ Len(split_table_row(ls[k])) >= 2
    /\ is_alignment_line(ls[k + 1], Len(split_table_row(ls[k])))
    /\ IsDataRow(ls[k + 2], Len(split_table_row(ls[k])))

RECURSIVE RowsFrom(_, _, _)
\* the number of data rows of width n from line j of ls on
RowsFrom(ls, j, n) ==
    IF j <= Len(ls) /\ IsDataRow(ls[j], n) THEN 1 + RowsFrom(ls, j + 1, n) ELSE 0

RECURSIVE OutsideTables(_, _)
\* the lines of ls from line k on that are not part of a recognized table
OutsideTables(ls, k) ==
    IF k > Len(ls) THEN <<>>
    ELSE IF RecognizedAt(ls, k)
         THEN OutsideTables(ls, k + 2 + RowsFrom(ls, k + 2, Len(split_table_row(ls[k]))))
         ELSE <<ls[k]>> \o OutsideTables(ls, k + 1)

\* C27 as stated: table normalization passes non-table content through. The
\* lines of the input that are not part of a recognized table (a header row
\* of at least two cells, an alignment row and at least one data row of the
\* same width, outside every fenced code block) are the lines the function
\* passes to its output, unchanged and in their order; so no line of a fenced
\* code block and no header and alignment pair without a data row is
\* rewritten.
C27_NonTablePassThrough ==
    Returned => TextsOf(result, "line") = OutsideTables(splitlines(md_text), 1)

\* the text of a key and its value as they stand in a JSON object
JsonPair(key, value) ==
    Quoted(Escaped(key)) \o <<":", " ">> \o Quoted(Escaped(value))

\* C28 as stated: table normalization is equivalent. A table is replaced by
\* one fenced json block: an opening fence line, one JSON object per data
\* row in row order, a closing fence line; and for every data row and every
\* column the object of the row holds the row's cell under the column's
\* header cell, so no data cell is lost.
C28_TableEquivalent ==
    Returned =>
        /\ \A k \in 1..Len(result) :
             /\ result[k].kind = "open" =>
                  /\ result[k].text = <<Backtick, Backtick, Backtick, "j", "s", "o", "n">>
                  /\ k < Len(result)
                  /\ result[k + 1].kind = "row"
             /\ result[k].kind = "row" =>
                  /\ k > 1
                  /\ k < Len(result)
                  /\ result[k - 1].kind \in {"open", "row"}
                  /\ result[k + 1].kind \in {"row", "close"}
                  /\ \A c \in 1..Len(result[k].header) :
                       Contains(result[k].text,
                                JsonPair(result[k].header[c], result[k].cells[c]))
             /\ result[k].kind = "close" =>
                  /\ result[k].text = <<Backtick, Backtick, Backtick>>
                  /\ k > 1
                  /\ result[k - 1].kind = "row"
        \* every input line is passed through, or is the header or the
        \* alignment row of a block, or is the data row of one object
        /\ Len(splitlines(md_text))
             = Len(TextsOf(result, "line")) + 2 * Len(TextsOf(result, "open"))
               + Len(TextsOf(result, "row"))

-----------------------------------------------------------------------------
(* DatasetMetaClient.iter_documents: the generator asks list_documents for   *)
(* page after page; the server chooses each response.  A step is one turn of *)
(* the while loop, with the items of the page yielded to a caller that takes *)
(* them all.                                                                 *)

MaxRequests == 3

PageSizeChoices == {1, 2}

\* listing.get("has_more"): True, False or absent
HasMoreChoices == {"True", "False", "None"}

\* listing.get("page"): a number, or None when the response has no such field
MaxPageField == 3

NoField == -1

PageFieldChoices == {NoField} \cup 0..MaxPageField

\* the responses of the server to request number r for pages of limit items:
\* the items (each named by the request and its place), has_more and page
Responses(r, limit) ==
    [items : {[k \in 1..n |-> <<r, k>>] : n \in 0..limit},
     has_more : HasMoreChoices,
     page_field : PageFieldChoices]

\* the two break conditions of the loop
is_last_page(listing, limit) ==
    listing.has_more = "False" \/ Len(listing.items) < limit

\* the page asked for after listing was received for page p
next_page(listing, p) ==
    IF listing.page_field # NoField /\ listing.page_field = p THEN p + 1
    ELSE (IF listing.page_field # NoField /\ listing.page_field # 0
          THEN listing.page_field ELSE p) + 1

PageInit ==
    /\ pc = "iter"
    /\ page_size \in PageSizeChoices
    /\ page = 1
    /\ requests = <<>>
    /\ fetched = <<>>
    /\ yielded = <<>>
    /\ SplitterIdle
    /\ TableIdle

\* a turn of the loop that ends the generator
FetchLast ==
    /\ pc = "iter"
    /\ Len(requests) < MaxRequests
    /\ \E listing \in Responses(Len(requests) + 1, page_size) :
         /\ is_last_page(listing, page_size)
         /\ requests' = Append(requests, page)
         /\ fetched' = Append(fetched, listing)
         /\ yielded' = yielded \o listing.items
    /\ pc' = "stop"
    /\ UNCHANGED <<page_size, page, table_vars, splitter_vars>>

\* a turn of the loop that goes on to another page
FetchMore ==
    /\ pc = "iter"
    /\ Len(requests) < MaxRequests
    /\ \E listing \in Responses(Len(requests) + 1, page_size) :
         /\ ~is_last_page(listing, page_size)
         /\ requests' = Append(requests, page)
         /\ fetched' = Append(fetched, listing)
         /\ yielded' = yielded \o listing.items
         /\ page' = next_page(listing, page)
    /\ UNCHANGED <<pc, page_size, table_vars, splitter_vars>>

PageNext == FetchLast \/ FetchMore

PageSpec == PageInit /\ [][PageNext]_vars

RECURSIVE ItemsOf(_)
\* the items of the responses, page after page
ItemsOf(listings) ==
    IF listings = <<>> THEN <<>>
    ELSE Head(listings).items \o ItemsOf(Tail(listings))

\* a response that ends the iteration: has_more is false, or fewer items than
\* a full page
EndsIteration(listing) ==
    listing.has_more = "False" \/ Len(listing.items) < page_size

\* C30 as stated: pagination progress. Whatever the server answers, the page
\* numbers requested start at 1 and increase strictly, so no page is
\* requested twice; the items yielded are the items of the pages fetched,
\* each once and in order; and the generator stops with the first response
\* whose has_more is false or that has fewer than page_size items.
C30_PaginationProgress ==
    /\ requests # <<>> => requests[1] = 1
    /\ \A a, b \in 1..Len(requests) : a < b => requests[a] < requests[b]
    /\ Len(fetched) = Len(requests)
    /\ yielded = ItemsOf(fetched)
    /\ \A k \in 1..Len(fetched) :
         EndsIteration(fetched[k]) <=> (k = Len(fetched) /\ pc = "stop")

====
